---- MODULE Spec2Model ----
(***************************************************************************)
(* Model of olcPGEX_KeyCombo.h: the key-combo registry                     *)
(* (olcPGEX_KeyComboManager::KeyCombos), RegisterKeyCombo, GetKeyCombo and *)
(* the per-frame evaluation OnBeforeUserUpdate.                            *)
(*                                                                         *)
(* The host engine (olcPixelGameEngine) is outside the repository.  Its    *)
(* key table is an input of every frame: pge->GetKey(k) is read from the   *)
(* variable pgeKeys, which each frame takes any value the host can report. *)
(***************************************************************************)
EXTENDS Integers, Sequences, FiniteSets, TLC

VARIABLES
    KeyCombos,  \* std::vector<KeyCombo> of the manager
    pgeKeys,    \* what pge->GetKey(k) returns in the current frame
    call,       \* the last call made on the manager and how it ended
    issued,     \* the handles RegisterKeyCombo returned, in call order
    balance,    \* per combo: frames with bPressed minus frames with bReleased
    solo        \* per combo: the KeyCombos of a manager holding that combo alone

vars == <<KeyCombos, pgeKeys, call, issued, balance, solo>>

----------------------------------------------------------------------------
(* Bounds of the model *)

MaxCombos == 2      \* registrations explored
MaxBalance == 2     \* cap of |balance[i]|

(* Program constant: the capacity of KeyComboDefinition::Modifiers *)
MaxModifiers == 4

----------------------------------------------------------------------------
(* Data *)

\* olc::Key values used by the explored definitions
Keys == {"CTRL", "SHIFT", "C"}

\* olc::HWButton
HWButton == [bPressed : BOOLEAN, bHeld : BOOLEAN, bReleased : BOOLEAN]

\* olc::HWButton{} : every flag false
DefaultHWButton == [bPressed |-> FALSE, bHeld |-> FALSE, bReleased |-> FALSE]

\* The values the host reports for a key. The host sets its flags by the
\* logic OnBeforeUserUpdate repeats for combos (bPressed together with
\* bHeld = true, bReleased together with bHeld = false): a pressed key is
\* held, a released key is neither held nor pressed.
HostKeyStates ==
    {b \in HWButton : /\ b.bPressed => b.bHeld
                      /\ b.bReleased => (~b.bHeld /\ ~b.bPressed)}

\* pge->GetKey(k)
GetKey(keys, k) == keys[k]

\* static_assert(NumMods <= 4) of the KeyComboDefinition constructor
StaticAssertLoose(NumMods) == NumMods <= MaxModifiers + 1
StaticAssert(NumMods) == NumMods <= MaxModifiers

\* KeyComboDefinition::KeyComboDefinition(MainKey, Mods): Modifiers holds the
\* NumMods copied keys (the rest of the array is never read).
KeyComboDefinition(MainKey, Mods) ==
    [Key |-> MainKey, ModifierCount |-> Len(Mods), Modifiers |-> Mods]

\* struct KeyCombo as RegisterKeyCombo builds it: { def, {} }
NewKeyCombo(def) ==
    [Definition |-> def, State |-> DefaultHWButton,
     StateOld |-> FALSE, StateNew |-> FALSE]

\* The definitions the explored program registers: no modifier (a definition
\* whose public ModifierCount was set to 0), one, two, and the full four (one
\* of them the terminal key itself), and one written with five.
Catalogue ==
    { <<"C", <<>>>>,
      <<"C", <<"CTRL">>>>,
      <<"C", <<"CTRL", "SHIFT">>>>,
      <<"SHIFT", <<"CTRL", "SHIFT", "C", "CTRL">>>>,
      <<"C", <<"CTRL", "SHIFT", "CTRL", "SHIFT", "CTRL">>>> }

----------------------------------------------------------------------------
(* The last call: op, the handle passed or returned, how it ended, the     *)
(* HWButton a GetKeyCombo returned and the NumMods of a constructed         *)
(* definition.                                                             *)

NoHandle == -1

Call(op, handle, outcome, state) ==
    [op |-> op, handle |-> handle, outcome |-> outcome, state |-> state,
     NumMods |-> 0]

RegisterCall(handle, outcome, NumMods) ==
    [op |-> "RegisterKeyCombo", handle |-> handle, outcome |-> outcome,
     state |-> DefaultHWButton, NumMods |-> NumMods]

Init ==
    /\ KeyCombos = <<>>
    /\ pgeKeys = [k \in Keys |-> DefaultHWButton]
    /\ call = Call("none", NoHandle, "ok", DefaultHWButton)
    /\ issued = <<>>
    /\ balance = <<>>
    /\ solo = <<>>

Running == call.outcome # "crashed"

----------------------------------------------------------------------------
(* RegisterKeyCombo *)

\* the value RegisterKeyCombo returns: KeyCombos.size() - 1 after push_back
RegisterReturnOffByOne(kcs) == Len(kcs)
RegisterReturn(kcs) == Len(kcs) - 1

\* KeyCombos.push_back({ def, {} })
PushBackFront(kcs, def) == <<NewKeyCombo(def)>> \o kcs
PushBackRebuilt(kcs, def) ==
    Append([i \in 1..Len(kcs) |-> NewKeyCombo(kcs[i].Definition)], NewKeyCombo(def))
PushBack(kcs, def) == Append(kcs, NewKeyCombo(def))

\* A registration written in the program: the definition is constructed
\* (static_assert) and passed to RegisterKeyCombo.
RegisterKeyCombo ==
    /\ Running
    /\ Len(KeyCombos) < MaxCombos
    /\ \E c \in Catalogue :
        LET MainKey == c[1]
            Mods == c[2]
        IN  IF StaticAssert(Len(Mods))
            THEN LET kcs == PushBack(KeyCombos, KeyComboDefinition(MainKey, Mods))
                 IN  /\ KeyCombos' = kcs
                     /\ call' = RegisterCall(RegisterReturn(kcs), "ok", Len(Mods))
                     /\ issued' = Append(issued, RegisterReturn(kcs))
                     /\ balance' = Append(balance, 0)
                     /\ solo' = Append(solo, PushBack(<<>>, KeyComboDefinition(MainKey, Mods)))
            ELSE /\ call' = RegisterCall(NoHandle, "static_assert", Len(Mods))
                 /\ UNCHANGED <<KeyCombos, issued, balance, solo>>
    /\ UNCHANGED pgeKeys

----------------------------------------------------------------------------
(* OnBeforeUserUpdate *)

\* std::all_of over the first ModifierCount modifiers of GetKey(k).bHeld
ModsHeldAnyOf(def, keys) ==
    \E j \in 1..def.ModifierCount : GetKey(keys, def.Modifiers[j]).bHeld
ModsHeld(def, keys) ==
    \A j \in 1..def.ModifierCount : GetKey(keys, def.Modifiers[j]).bHeld

\* kc.State.bPressed = false; kc.State.bReleased = false;
ResetPulsesSkipped(state) == state
ResetPulsesReleasedOnly(state) == [state EXCEPT !.bReleased = FALSE]
ResetPulsesPressedOnly(state) == [state EXCEPT !.bPressed = FALSE]
ResetPulses(state) == [state EXCEPT !.bPressed = FALSE, !.bReleased = FALSE]

\* kc.StateNew = mods_held && (keyState.bPressed || (kc.State.bHeld && keyState.bHeld))
RawActiveNoSustain(mods_held, keyState, state) ==
    mods_held /\ keyState.bPressed
RawActiveLooseSustain(mods_held, keyState, state) ==
    (mods_held /\ keyState.bPressed) \/ (state.bHeld /\ keyState.bHeld)
RawActiveOnHeld(mods_held, keyState, state) ==
    mods_held /\ keyState.bHeld
RawActive(mods_held, keyState, state) ==
    mods_held /\ (keyState.bPressed \/ (state.bHeld /\ keyState.bHeld))

\* if (kc.StateNew != kc.StateOld) { ... } on the State after the reset
EdgeNoNegation(state, StateOld, StateNew) ==
    IF StateNew # StateOld
    THEN IF StateNew
         THEN [state EXCEPT !.bPressed = state.bHeld, !.bHeld = TRUE]
         ELSE [state EXCEPT !.bReleased = TRUE, !.bHeld = FALSE]
    ELSE state
EdgeNoReleasedPulse(state, StateOld, StateNew) ==
    IF StateNew # StateOld
    THEN IF StateNew
         THEN [state EXCEPT !.bPressed = ~state.bHeld, !.bHeld = TRUE]
         ELSE [state EXCEPT !.bHeld = FALSE]
    ELSE state
EdgeLevelTriggered(state, StateOld, StateNew) ==
    IF StateNew
    THEN [state EXCEPT !.bPressed = ~state.bHeld, !.bHeld = TRUE]
    ELSE [state EXCEPT !.bReleased = TRUE, !.bHeld = FALSE]
EdgeHeldSticky(state, StateOld, StateNew) ==
    IF StateNew # StateOld
    THEN IF StateNew
         THEN [state EXCEPT !.bPressed = ~state.bHeld, !.bHeld = TRUE]
         ELSE [state EXCEPT !.bReleased = TRUE]
    ELSE state
Edge(state, StateOld, StateNew) ==
    IF StateNew # StateOld
    THEN IF StateNew
         THEN [state EXCEPT !.bPressed = ~state.bHeld, !.bHeld = TRUE]
         ELSE [state EXCEPT !.bReleased = TRUE, !.bHeld = FALSE]
    ELSE state

\* One iteration of the loop: the KeyCombo kc after the frame with key table keys
UpdateKeyComboNoStore(kc, keys) ==
    LET mods_held == ModsHeld(kc.Definition, keys)
        reset == ResetPulses(kc.State)
        keyState == GetKey(keys, kc.Definition.Key)
        StateNew == RawActive(mods_held, keyState, reset)
    IN  [Definition |-> kc.Definition,
         State |-> Edge(reset, kc.StateOld, StateNew),
         StateOld |-> kc.StateOld,
         StateNew |-> StateNew]
UpdateKeyCombo(kc, keys) ==
    LET mods_held == ModsHeld(kc.Definition, keys)
        reset == ResetPulses(kc.State)
        keyState == GetKey(keys, kc.Definition.Key)
        StateNew == RawActive(mods_held, keyState, reset)
    IN  [Definition |-> kc.Definition,
         State |-> Edge(reset, kc.StateOld, StateNew),
         StateOld |-> StateNew,
         StateNew |-> StateNew]

\* for (auto& kc : KeyCombos): the entries are updated in vector order, each
\* from its own fields and the key table
RECURSIVE UpdateAllConsuming(_, _)
UpdateAllConsuming(kcs, keys) ==
    IF kcs = <<>>
    THEN <<>>
    ELSE LET kc == UpdateKeyCombo(Head(kcs), keys)
             rest == IF kc.StateNew
                     THEN [keys EXCEPT ![kc.Definition.Key].bPressed = FALSE]
                     ELSE keys
         IN  <<kc>> \o UpdateAllConsuming(Tail(kcs), rest)

RECURSIVE UpdateAll(_, _)
UpdateAll(kcs, keys) ==
    IF kcs = <<>>
    THEN <<>>
    ELSE <<UpdateKeyCombo(Head(kcs), keys)>> \o UpdateAll(Tail(kcs), keys)

\* bPressed pulses minus bReleased pulses after one more frame
Tally(n, state) ==
    n + (IF state.bPressed THEN 1 ELSE 0) - (IF state.bReleased THEN 1 ELSE 0)

\* The key tables the host can report in a frame
HostKeyTables == [Keys -> HostKeyStates]

\* The key tables of a host whose keys are tapped: pressed for one frame or up
TappedKeyTables == [Keys -> {b \in HostKeyStates : b.bHeld = b.bPressed /\ ~b.bReleased}]

\* The host updates its key table, then calls OnBeforeUserUpdate: for (auto& kc : KeyCombos)
Frame(tables) ==
    /\ Running
    /\ \A i \in 1..Len(balance) : balance[i] \in (-MaxBalance)..MaxBalance
    /\ \E keys \in tables :
        /\ pgeKeys' = keys
        /\ KeyCombos' = UpdateAll(KeyCombos, keys)
        /\ solo' = [i \in 1..Len(solo) |-> UpdateAll(solo[i], keys)]
    /\ balance' = [i \in 1..Len(KeyCombos) |-> Tally(balance[i], KeyCombos'[i].State)]
    /\ call' = Call("OnBeforeUserUpdate", NoHandle, "ok", DefaultHWButton)
    /\ UNCHANGED issued

OnBeforeUserUpdate == Frame(HostKeyTables)

OnBeforeUserUpdateTapped == Frame(TappedKeyTables)

----------------------------------------------------------------------------
(* GetKeyCombo *)

\* the handles a caller passes: issued ones, the registry size, a negative one
Handles == (-1)..MaxCombos

\* 0 <= i < KeyCombos.size()
InRange(kcs, i) == 0 <= i /\ i < Len(kcs)

\* KeyCombos[i].State for an index inside the vector
StateAt(kcs, i) == kcs[i + 1].State

\* return KeyCombos[i].State; operator[] is unchecked: outside the vector the
\* read is undefined, it yields some HWButton or the process dies.
GetKeyComboConsuming ==
    /\ Running
    /\ \E i \in Handles :
        /\ InRange(KeyCombos, i)
        /\ call' = Call("GetKeyCombo", i, "returned", StateAt(KeyCombos, i))
        /\ KeyCombos' = [KeyCombos EXCEPT ![i + 1].State = ResetPulses(@)]
    /\ UNCHANGED <<pgeKeys, issued, balance, solo>>
GetKeyCombo ==
    /\ Running
    /\ \E i \in Handles :
        /\ i <= Len(KeyCombos)
        /\ IF InRange(KeyCombos, i)
           THEN call' = Call("GetKeyCombo", i, "returned", StateAt(KeyCombos, i))
           ELSE \/ \E garbage \in HWButton :
                      call' = Call("GetKeyCombo", i, "returned", garbage)
                \/ call' = Call("GetKeyCombo", i, "crashed", DefaultHWButton)
    /\ UNCHANGED <<KeyCombos, pgeKeys, issued, balance, solo>>

----------------------------------------------------------------------------
(* Specifications *)

\* registration and frames, with every key table the host can report
Next == RegisterKeyCombo \/ OnBeforeUserUpdate

Spec == Init /\ [][Next]_vars

\* registration, frames of tapped keys and state queries
NextQuery == RegisterKeyCombo \/ OnBeforeUserUpdateTapped \/ GetKeyCombo

SpecQuery == Init /\ [][NextQuery]_vars

----------------------------------------------------------------------------
(* Vocabulary of the properties *)

Entries == 1..Len(KeyCombos)

FrameStep == call'.op = "OnBeforeUserUpdate"

AfterFrame == call.op = "OnBeforeUserUpdate"

\* the modifier keys of entry i and its terminal key
ModifiersOf(i) ==
    {KeyCombos[i].Definition.Modifiers[j] : j \in 1..Len(KeyCombos[i].Definition.Modifiers)}

KeyOf(i) == KeyCombos[i].Definition.Key

AllModifiersHeld(i, keys) == \A m \in ModifiersOf(i) : keys[m].bHeld

Flags(p, h, r) == [bPressed |-> p, bHeld |-> h, bReleased |-> r]

----------------------------------------------------------------------------
(* C1: activation. In a frame that a combo enters not held, with all its   *)
(* modifier keys held and its terminal key pressed, the combo comes out    *)
(* pressed and held and not released.                                      *)
C1_Activation ==
    [][FrameStep =>
        \A i \in Entries :
            (/\ ~KeyCombos[i].State.bHeld
             /\ AllModifiersHeld(i, pgeKeys')
             /\ pgeKeys'[KeyOf(i)].bPressed)
            => KeyCombos'[i].State = Flags(TRUE, TRUE, FALSE)]_vars

\* a combo with a modifier was just activated by Ctrl-then-C
C1_Witness ==
    /\ AfterFrame
    /\ \E i \in Entries :
        /\ KeyCombos[i].Definition.ModifierCount >= 1
        /\ AllModifiersHeld(i, pgeKeys)
        /\ pgeKeys[KeyOf(i)].bPressed
        /\ KeyCombos[i].State = Flags(TRUE, TRUE, FALSE)

(* C2: sustain. A combo that was pressed or held after the previous frame  *)
(* and whose modifier keys and terminal key are all held in this frame     *)
(* comes out held, not pressed, not released.                              *)
C2_Sustain ==
    [][FrameStep =>
        \A i \in Entries :
            (/\ KeyCombos[i].State.bPressed \/ KeyCombos[i].State.bHeld
             /\ AllModifiersHeld(i, pgeKeys')
             /\ pgeKeys'[KeyOf(i)].bHeld)
            => KeyCombos'[i].State = Flags(FALSE, TRUE, FALSE)]_vars

\* a combo with a modifier is held past its activating frame: the terminal
\* key is held and no longer pressed
C2_Witness ==
    /\ AfterFrame
    /\ \E i \in Entries :
        /\ KeyCombos[i].Definition.ModifierCount >= 1
        /\ AllModifiersHeld(i, pgeKeys)
        /\ pgeKeys[KeyOf(i)] = Flags(FALSE, TRUE, FALSE)
        /\ KeyCombos[i].State = Flags(FALSE, TRUE, FALSE)

(* C3: release. A combo that was held after the previous frame and one of  *)
(* whose modifier keys or whose terminal key is not held in this frame     *)
(* comes out released, not held, not pressed.                              *)
C3_Release ==
    [][FrameStep =>
        \A i \in Entries :
            (/\ KeyCombos[i].State.bHeld
             /\ ~(AllModifiersHeld(i, pgeKeys') /\ pgeKeys'[KeyOf(i)].bHeld))
            => KeyCombos'[i].State = Flags(FALSE, FALSE, TRUE)]_vars

\* a combo was released by letting go of a modifier alone, the terminal key
\* still held
C3_Witness ==
    /\ AfterFrame
    /\ \E i \in Entries :
        /\ ~AllModifiersHeld(i, pgeKeys)
        /\ pgeKeys[KeyOf(i)].bHeld
        /\ KeyCombos[i].State = Flags(FALSE, FALSE, TRUE)

(* C4: in every reachable state no combo is both pressed and released, and *)
(* a pressed combo is held.                                                *)
C4_PulseExclusion ==
    \A i \in Entries :
        /\ ~(KeyCombos[i].State.bPressed /\ KeyCombos[i].State.bReleased)
        /\ KeyCombos[i].State.bPressed => KeyCombos[i].State.bHeld

\* one combo pressed while another is released in the same frame
C4_Witness ==
    /\ AfterFrame
    /\ \E i, j \in Entries :
        /\ KeyCombos[i].State.bPressed
        /\ KeyCombos[j].State.bReleased

(* C5: pulse balance. For every combo, the frames with pressed minus the   *)
(* frames with released since its registration is 1 while it is held and   *)
(* 0 while it is not.                                                      *)
C5_PulseBalance ==
    \A i \in Entries :
        balance[i] = IF KeyCombos[i].State.bHeld THEN 1 ELSE 0

\* one combo has just completed a cycle while another is in the middle of one
C5_Witness ==
    /\ AfterFrame
    /\ \E i, j \in Entries :
        /\ KeyCombos[i].State.bReleased /\ balance[i] = 0
        /\ KeyCombos[j].State = Flags(FALSE, TRUE, FALSE) /\ balance[j] = 1

(* C6: a combo that enters a frame not held, with at least one modifier    *)
(* key not held, comes out not held and not pressed, whatever its terminal *)
(* key does.                                                               *)
C6_NoActivationWithoutModifiers ==
    [][FrameStep =>
        \A i \in Entries :
            (/\ ~KeyCombos[i].State.bHeld
             /\ ~AllModifiersHeld(i, pgeKeys'))
            => (~KeyCombos'[i].State.bHeld /\ ~KeyCombos'[i].State.bPressed)]_vars

\* the terminal key is pressed with one modifier held and another not: the
\* combo stays idle (no released pulse, so it was not held going in)
C6_Witness ==
    /\ AfterFrame
    /\ \E i \in Entries :
        /\ \E m \in ModifiersOf(i) : pgeKeys[m].bHeld
        /\ \E m \in ModifiersOf(i) : ~pgeKeys[m].bHeld
        /\ pgeKeys[KeyOf(i)].bPressed
        /\ KeyCombos[i].State = DefaultHWButton

(* C7: a combo with no modifier becomes held in exactly the frames in      *)
(* which its terminal key is pressed, and stays held in every frame in     *)
(* which the terminal key is held.                                         *)
C7_ZeroModifiers ==
    [][FrameStep =>
        \A i \in Entries :
            KeyCombos[i].Definition.ModifierCount = 0 =>
                /\ ~KeyCombos[i].State.bHeld =>
                      (KeyCombos'[i].State.bHeld <=> pgeKeys'[KeyOf(i)].bPressed)
                /\ (KeyCombos[i].State.bHeld /\ pgeKeys'[KeyOf(i)].bHeld) =>
                      KeyCombos'[i].State.bHeld]_vars

\* a combo with no modifier is held on, its key held and no longer pressed
C7_Witness ==
    /\ AfterFrame
    /\ \E i \in Entries :
        /\ KeyCombos[i].Definition.ModifierCount = 0
        /\ pgeKeys[KeyOf(i)] = Flags(FALSE, TRUE, FALSE)
        /\ KeyCombos[i].State = Flags(FALSE, TRUE, FALSE)

(* C8: RegisterKeyCombo returns the number of combos registered before the *)
(* call, so the handles issued are 0, 1, 2, ... in call order, and the new *)
(* entry reads all-false through its handle.                               *)
C8_HandlesInOrder ==
    /\ [](/\ Len(issued) = Len(KeyCombos)
          /\ \A j \in 1..Len(issued) : issued[j] = j - 1)
    /\ [][(call'.op = "RegisterKeyCombo" /\ call'.outcome = "ok") =>
            /\ call'.handle = Len(KeyCombos)
            /\ Len(KeyCombos') = Len(KeyCombos) + 1
            /\ InRange(KeyCombos', call'.handle)
            /\ StateAt(KeyCombos', call'.handle) = DefaultHWButton]_vars

\* a second registration returned handle 1 while the first combo is active
C8_Witness ==
    /\ call.op = "RegisterKeyCombo"
    /\ call.outcome = "ok"
    /\ call.handle = 1
    /\ issued = <<0, 1>>
    /\ KeyCombos[1].State.bHeld
    /\ KeyCombos[2].State = DefaultHWButton

C10_OutOfRangeGetFails ==
    (call.op = "GetKeyCombo" /\ ~InRange(KeyCombos, call.handle))
        => call.outcome # "returned"

(* C11: GetKeyCombo is a pure read. A call changes no entry (flags, raw    *)
(* flags, definition) nor the number of entries; for a handle inside the   *)
(* registry it returns the entry's State, so repeated calls without a     *)
(* frame in between return the same flags.                                 *)
C11_GetIsPureRead ==
    /\ [][call'.op = "GetKeyCombo" => KeyCombos' = KeyCombos]_vars
    /\ []((/\ call.op = "GetKeyCombo"
           /\ InRange(KeyCombos, call.handle))
          => (/\ call.outcome = "returned"
              /\ call.state = KeyCombos[call.handle + 1].State))
    /\ [][(/\ call.op = "GetKeyCombo" /\ call'.op = "GetKeyCombo"
           /\ call'.handle = call.handle
           /\ InRange(KeyCombos, call.handle))
          => call'.state = call.state]_vars

\* the pressed pulse of the second combo was read through its handle
C11_Witness ==
    /\ call.op = "GetKeyCombo"
    /\ call.handle = 1
    /\ call.outcome = "returned"
    /\ call.state = Flags(TRUE, TRUE, FALSE)
    /\ Len(KeyCombos) = 2

\* Reverse of a sequence
RECURSIVE Reverse(_)
Reverse(seq) == IF seq = <<>> THEN <<>> ELSE Reverse(Tail(seq)) \o <<Head(seq)>>

(* C12: combo independence. After every call each combo's flags are those  *)
(* of a manager in which it is the only combo and which saw the same key   *)
(* tables; and evaluating the entries in the opposite order gives the same *)
(* registry.                                                               *)
C12_Independence ==
    /\ [](/\ Len(solo) = Len(KeyCombos)
          /\ \A i \in Entries :
                StateAt(solo[i], 0) = StateAt(KeyCombos, i - 1))
    /\ [][FrameStep =>
            KeyCombos' = Reverse(UpdateAll(Reverse(KeyCombos), pgeKeys'))]_vars

\* two combos on the same terminal key, one active and one not, in a frame
\* where the shared key is pressed
C12_Witness ==
    /\ AfterFrame
    /\ Len(KeyCombos) = 2
    /\ KeyOf(1) = KeyOf(2)
    /\ pgeKeys[KeyOf(1)].bPressed
    /\ KeyCombos[1].State.bPressed
    /\ ~KeyCombos[2].State.bHeld

(* C13: a successful RegisterKeyCombo leaves every existing entry as it    *)
(* was (definition, flags, raw flags) and grows the registry by one.       *)
C13_RegisterKeepsEntries ==
    [][(call'.op = "RegisterKeyCombo" /\ call'.outcome = "ok") =>
        /\ Len(KeyCombos') = Len(KeyCombos) + 1
        /\ \A i \in Entries : KeyCombos'[i] = KeyCombos[i]]_vars

\* a combo was registered while the first one was in its pressed frame
C13_Witness ==
    /\ call.op = "RegisterKeyCombo"
    /\ call.outcome = "ok"
    /\ Len(KeyCombos) = 2
    /\ KeyCombos[1].State = Flags(TRUE, TRUE, FALSE)
    /\ KeyCombos[1].StateOld

(* C14: single-frame pulses. A combo that is pressed is not pressed after  *)
(* the next frame, and a combo that is released is not released after the  *)
(* next frame.                                                             *)
C14_SingleFramePulses ==
    [][FrameStep =>
        \A i \in Entries :
            /\ KeyCombos[i].State.bPressed => ~KeyCombos'[i].State.bPressed
            /\ KeyCombos[i].State.bReleased => ~KeyCombos'[i].State.bReleased]_vars

\* the frame after a released pulse, with the terminal key pressed again but
\* a modifier missing: the combo is idle
C14_Witness ==
    /\ AfterFrame
    /\ \E i \in Entries :
        /\ balance[i] = 0
        /\ KeyCombos[i].State = DefaultHWButton
        /\ pgeKeys[KeyOf(i)].bPressed
        /\ ~AllModifiersHeld(i, pgeKeys)
    /\ \E j \in Entries : KeyCombos[j].State = Flags(FALSE, TRUE, FALSE)

(* C15: no-edge frames. In a frame where a combo's raw signal equals the   *)
(* one stored by the previous frame, held is unchanged and pressed and     *)
(* released are false afterwards; pressed or released is true after a      *)
(* frame only if the raw signal changed in it.                             *)
C15_NoEdgeNoChange ==
    [][FrameStep =>
        \A i \in Entries :
            /\ KeyCombos'[i].StateNew = KeyCombos[i].StateOld =>
                  /\ KeyCombos'[i].State.bHeld = KeyCombos[i].State.bHeld
                  /\ ~KeyCombos'[i].State.bPressed
                  /\ ~KeyCombos'[i].State.bReleased
            /\ (KeyCombos'[i].State.bPressed \/ KeyCombos'[i].State.bReleased) =>
                  KeyCombos'[i].StateNew # KeyCombos[i].StateOld]_vars

\* one combo idle through a frame with its terminal key held, another held
\* through the same frame
C15_Witness ==
    /\ AfterFrame
    /\ \E i, j \in Entries :
        /\ KeyCombos[i].State = DefaultHWButton
        /\ ~KeyCombos[i].StateNew
        /\ pgeKeys[KeyOf(i)].bHeld
        /\ KeyCombos[j].State = Flags(FALSE, TRUE, FALSE)
        /\ KeyCombos[j].StateNew

(* C16: the pressed = !held guard never suppresses a pulse. No reachable   *)
(* state has a combo held while its stored raw signal is inactive, so      *)
(* every frame in which the raw signal goes from inactive to active ends   *)
(* with the combo pressed.                                                 *)
C16_GuardNeverSuppresses ==
    /\ [](\A i \in Entries : ~(KeyCombos[i].State.bHeld /\ ~KeyCombos[i].StateOld))
    /\ [][FrameStep =>
            \A i \in Entries :
                (~KeyCombos[i].StateOld /\ KeyCombos'[i].StateNew)
                => KeyCombos'[i].State.bPressed]_vars

\* the four-modifier combo was activated
C16_Witness ==
    /\ AfterFrame
    /\ \E i \in Entries :
        /\ KeyCombos[i].Definition.ModifierCount = MaxModifiers
        /\ KeyCombos[i].StateNew
        /\ KeyCombos[i].State.bPressed

(* C17: entries are append-only and definitions immutable. No call makes   *)
(* the registry shorter, a frame keeps its length, every entry keeps its   *)
(* definition, and a registered entry holds the definition that was        *)
(* passed.                                                                 *)
C17_AppendOnly ==
    /\ [][/\ Len(KeyCombos') >= Len(KeyCombos)
          /\ FrameStep => Len(KeyCombos') = Len(KeyCombos)
          /\ \A i \in Entries :
                KeyCombos'[i].Definition = KeyCombos[i].Definition]_vars
    /\ [](\A i \in Entries :
            /\ KeyCombos[i].Definition = solo[i][1].Definition
            /\ \E c \in Catalogue :
                  KeyCombos[i].Definition =
                      [Key |-> c[1], ModifierCount |-> Len(c[2]), Modifiers |-> c[2]])

\* two different definitions, both evaluated and then read
C17_Witness ==
    /\ call.op = "GetKeyCombo"
    /\ Len(KeyCombos) = 2
    /\ KeyCombos[1].Definition # KeyCombos[2].Definition
    /\ KeyCombos[1].State.bHeld
    /\ KeyCombos[2].State.bHeld

(* C18: for every combo, fresh or after any frame, the held flag equals    *)
(* both stored raw flags: held = StateNew = StateOld.                      *)
C18_HeldIsRawSignal ==
    \A i \in Entries :
        /\ KeyCombos[i].State.bHeld = KeyCombos[i].StateNew
        /\ KeyCombos[i].StateNew = KeyCombos[i].StateOld

\* a released combo (all three false) next to a held one (all three true)
C18_Witness ==
    /\ AfterFrame
    /\ \E i, j \in Entries :
        /\ KeyCombos[i].State.bReleased /\ ~KeyCombos[i].StateOld
        /\ KeyCombos[j].State.bHeld /\ KeyCombos[j].StateOld

(* C19: modifiers arriving late do not activate. A combo that enters a     *)
(* frame not held, with its terminal key held but not pressed, comes out   *)
(* not held and not pressed, also when all its modifiers are held.         *)
C19_LateModifiers ==
    [][FrameStep =>
        \A i \in Entries :
            (/\ ~KeyCombos[i].State.bHeld
             /\ pgeKeys'[KeyOf(i)].bHeld
             /\ ~pgeKeys'[KeyOf(i)].bPressed)
            => (~KeyCombos'[i].State.bHeld /\ ~KeyCombos'[i].State.bPressed)]_vars

\* a combo that has been released stays idle with all its modifiers held
\* again and the terminal key still down
C19_Witness ==
    /\ AfterFrame
    /\ \E i \in Entries :
        /\ KeyCombos[i].Definition.ModifierCount >= 1
        /\ AllModifiersHeld(i, pgeKeys)
        /\ pgeKeys[KeyOf(i)] = Flags(FALSE, TRUE, FALSE)
        /\ KeyCombos[i].State = DefaultHWButton

(* C20: in every reachable state a released combo is not held.             *)
C20_ReleasedNotHeld ==
    \A i \in Entries :
        KeyCombos[i].State.bReleased => ~KeyCombos[i].State.bHeld

\* a combo released by its terminal key going up with the modifiers held
C20_Witness ==
    /\ AfterFrame
    /\ \E i \in Entries :
        /\ KeyCombos[i].Definition.ModifierCount >= 1
        /\ AllModifiersHeld(i, pgeKeys)
        /\ pgeKeys[KeyOf(i)].bReleased
        /\ KeyCombos[i].State = Flags(FALSE, FALSE, TRUE)

TypeOK ==
    /\ \A i \in 1..Len(KeyCombos) :
          /\ KeyCombos[i].State \in HWButton
          /\ KeyCombos[i].Definition.ModifierCount = Len(KeyCombos[i].Definition.Modifiers)
    /\ pgeKeys \in HostKeyTables
    /\ Len(balance) = Len(KeyCombos)
====
